---- MODULE Spec2Model ----
(***************************************************************************)
(* Tenant - Real Estate Management API (src/main.py).                      *)
(*                                                                         *)
(* Text (str) and raw bytes are sequences of naturals: code points for     *)
(* str, byte values for bytes.  Optional values are None (<<>>) or         *)
(* Some(v) (<<v>>).  Collection names, dictionary keys and fixed messages  *)
(* are TLA+ strings.                                                       *)
(***************************************************************************)
EXTENDS Integers, Sequences, FiniteSets, TLC

VARIABLES
    dbReady,    \* database.db is not None (fixed at import time)
    store,      \* collection name -> sequence of stored documents
    existing,   \* the store's collection names, in listing order
    nextId,     \* the store's identifier counter
    inflight,   \* a request received and not yet handled (None when idle)
    lastReq,    \* the request handled last
    lastResp,   \* the HTTP response to it
    lastCalls,  \* the store adapter calls made while handling it
    created     \* history: what successful creations returned

vars == <<dbReady, store, existing, nextId, inflight, lastReq, lastResp, lastCalls, created>>

-----------------------------------------------------------------------------
(* Bounds of the model *)

MaxRecords == 2
MaxForeign == 21
MaxRaw == 3
MaxTags == 4

-----------------------------------------------------------------------------
(* Python values *)

None == <<>>
Some(v) == <<v>>
Val(o) == o[1]

\* Python truthiness of an Optional[str]: None and "" are falsy
Truthy(o) == o # None /\ Val(o) # <<>>

\* `o or d` for an Optional[str] o and a str d
OrElse(o, d) == IF Truthy(o) THEN Val(o) ELSE d

Min(a, b) == IF a < b THEN a ELSE b

\* s[:n]
Prefix(s, n) == SubSeq(s, 1, Min(n, Len(s)))

-----------------------------------------------------------------------------
(* str.lower, str.endswith, str.strip, str.split on code points *)

LowerChar(c) == IF c \in 65..90 THEN c + 32 ELSE c
Lower(s) == [i \in 1..Len(s) |-> LowerChar(s[i])]

EndsWith(s, suf) ==
    /\ Len(suf) <= Len(s)
    /\ SubSeq(s, Len(s) - Len(suf) + 1, Len(s)) = suf

EndsWithAny(s, sufs) == \E suf \in sufs : EndsWith(s, suf)

\* str.isspace for the code points below 256
IsSpace(c) == c \in (9..13) \cup (28..32) \cup {133, 160}

RECURSIVE LStrip(_)
LStrip(s) == IF s # <<>> /\ IsSpace(Head(s)) THEN LStrip(Tail(s)) ELSE s

RECURSIVE RStrip(_)
RStrip(s) ==
    IF s # <<>> /\ IsSpace(s[Len(s)]) THEN RStrip(SubSeq(s, 1, Len(s) - 1)) ELSE s

Strip(s) == RStrip(LStrip(s))

Comma == 44

\* s.split(","): the pieces between the commas, empty pieces included
RECURSIVE SplitFrom(_, _)
SplitFrom(s, piece) ==
    IF s = <<>> THEN <<piece>>
    ELSE IF Head(s) = Comma THEN <<piece>> \o SplitFrom(Tail(s), <<>>)
    ELSE SplitFrom(Tail(s), Append(piece, Head(s)))

Split(s) == SplitFrom(s, <<>>)

-----------------------------------------------------------------------------
(* bytes.decode(): UTF-8, one step of the decoder at each position *)

ReplacementChar == 65533

IsCont(b) == b \in 128..191

\* the length of the sequence a lead byte announces, 0 for an invalid start byte
SeqLen(lead) ==
    IF lead < 128 THEN 1
    ELSE IF lead \in 194..223 THEN 2
    ELSE IF lead \in 224..239 THEN 3
    ELSE IF lead \in 240..244 THEN 4
    ELSE 0

\* the second byte's range depends on the lead (no overlongs, no surrogates)
SecondOk(lead, b) ==
    IF lead = 224 THEN b \in 160..191
    ELSE IF lead = 237 THEN b \in 128..159
    ELSE IF lead = 240 THEN b \in 144..191
    ELSE IF lead = 244 THEN b \in 128..143
    ELSE IsCont(b)

ByteOk(raw, i, k) == IF k = 2 THEN SecondOk(raw[i], raw[i + 1]) ELSE IsCont(raw[i + k - 1])

\* how many bytes from position i on form a valid prefix of one sequence
ValidPrefix(raw, i) ==
    LET n == SeqLen(raw[i])
        avail == Min(n, Len(raw) - i + 1)
        good == {k \in 1..avail : \A j \in 2..k : ByteOk(raw, i, j)}
    IN  IF n = 0 THEN 0 ELSE CHOOSE k \in good : \A m \in good : m <= k

\* a complete valid sequence starts at i
Complete(raw, i) == SeqLen(raw[i]) # 0 /\ ValidPrefix(raw, i) = SeqLen(raw[i])

CodePoint(raw, i) ==
    LET n == SeqLen(raw[i])
    IN  IF n = 1 THEN raw[i]
        ELSE IF n = 2 THEN (raw[i] - 192) * 64 + (raw[i + 1] - 128)
        ELSE IF n = 3 THEN (raw[i] - 224) * 4096 + (raw[i + 1] - 128) * 64 + (raw[i + 2] - 128)
        ELSE (raw[i] - 240) * 262144 + (raw[i + 1] - 128) * 4096
             + (raw[i + 2] - 128) * 64 + (raw[i + 3] - 128)

\* position i lies inside the sequence, or the invalid prefix, that a lead
\* byte before it started; the decoder never starts a step there
Covered(raw, i) ==
    \E d \in 1..3 :
        /\ i - d >= 1
        /\ ~IsCont(raw[i - d])
        /\ ValidPrefix(raw, i - d) > d

\* what the decoder emits for the step starting at i, under an error handler
\* that emits `onError` for each error: Some(code point), or nothing
StepAt(raw, i, onError) ==
    IF Covered(raw, i) THEN None
    ELSE IF Complete(raw, i) THEN Some(CodePoint(raw, i))
    ELSE onError

Emitted(o) == o # None

Concat1(steps) ==
    LET kept == SelectSeq(steps, Emitted)
    IN  [i \in 1..Len(kept) |-> Val(kept[i])]

DecodeWith(raw, onError) == Concat1([i \in 1..Len(raw) |-> StepAt(raw, i, onError)])

\* raw.decode(errors="replace"): an error emits U+FFFD
DecodeReplace(raw) == DecodeWith(raw, Some(ReplacementChar))

\* raw.decode(errors="ignore"): an error emits nothing
DecodeIgnore(raw) == DecodeWith(raw, None)

-----------------------------------------------------------------------------
(* The store and its adapter (database.py): insert one, find many with limit *)

\* the store's native identifier: the bytes of an ObjectId, here the counter
ObjectId(n) == <<n>>

HexDigit(d) == IF d < 10 THEN 48 + d ELSE 87 + d

\* str(ObjectId): two lower-case hexadecimal digits for each byte
IdStr(oid) ==
    [i \in 1..(2 * Len(oid)) |->
        LET b == oid[(i + 1) \div 2]
        IN  IF i % 2 = 1 THEN HexDigit(b \div 16) ELSE HexDigit(b % 16)]

World == [store |-> store, existing |-> existing, nextId |-> nextId]

\* insert_one: the document is stored verbatim under a fresh identifier, in a
\* collection that is created on its first insert
InsertOne(w, collection, data) ==
    LET oid == ObjectId(w.nextId)
        doc == [k \in (DOMAIN data) \cup {"_id"} |-> IF k = "_id" THEN oid ELSE data[k]]
    IN  [store |-> [w.store EXCEPT ![collection] = Append(@, doc)],
         existing |-> IF \E i \in 1..Len(w.existing) : w.existing[i] = collection
                      THEN w.existing
                      ELSE Append(w.existing, collection),
         nextId |-> w.nextId + 1]

\* create_document(collection, data): the new world and the identifier, as str
create_document(w, collection, data) ==
    [world |-> InsertOne(w, collection, data), id |-> IdStr(ObjectId(w.nextId))]

\* get_documents(collection, limit=limit): the first `limit` documents
get_documents(w, collection, limit) == Prefix(w.store[collection], limit)

\* db.list_collection_names()
list_collection_names(w) == w.existing

-----------------------------------------------------------------------------
(* Responses *)

Response(status, body) == [status |-> status, body |-> body]

\* raise HTTPException(status_code, detail)
HTTPException(status, detail) == Response(status, [detail |-> detail])

\* what a handler does: its response, the store after it, its adapter calls
Outcome(resp, w, calls) == [resp |-> resp, world |-> w, calls |-> calls]

-----------------------------------------------------------------------------
(* Root, health and schema introspection *)

read_root == Outcome(Response(200, [message |-> "Tenant API running"]), World, <<>>)

MaxCollectionsShown == 20

\* test_database(): `listRaises` is whether db.list_collection_names() raises,
\* `urlSet` and `nameSet` whether DATABASE_URL and DATABASE_NAME are set
\* (the payload's texts are given without their marks and without the text
\* of the exception; nothing else in the two try blocks can raise)
\* variant: the failure of the listing escapes the handler
test_database_Unguarded(db, w, listRaises, urlSet, nameSet) ==
    IF db /\ listRaises
    THEN Outcome(HTTPException(500, "Internal Server Error"), w,
                 <<[fn |-> "list_collection_names"]>>)
    ELSE Outcome(Response(200, [backend |-> "Running",
                                database |-> IF db THEN "Connected & Working"
                                             ELSE "Available but not initialized",
                                database_url |-> IF ~db THEN "None" ELSE IF urlSet THEN "Set" ELSE "Not Set",
                                database_name |-> IF ~db THEN "None" ELSE IF nameSet THEN "Set" ELSE "Not Set",
                                connection_status |-> "Not Connected",
                                collections |-> IF db
                                                THEN Prefix(list_collection_names(w), 20)
                                                ELSE <<>>]),
                 w, IF db THEN <<[fn |-> "list_collection_names"]>> ELSE <<>>)

test_database(db, w, listRaises, urlSet, nameSet) ==
    LET initial == [backend |-> "Running",
                    database |-> "Not Available",
                    database_url |-> "None",
                    database_name |-> "None",
                    connection_status |-> "Not Connected",
                    collections |-> <<>>]
        connected == [initial EXCEPT
                        !.database = "Connected & Working",
                        !.database_url = IF urlSet THEN "Set" ELSE "Not Set",
                        !.database_name = IF nameSet THEN "Set" ELSE "Not Set"]
        body == IF db
                THEN IF listRaises
                     THEN [connected EXCEPT !.database = "Connected but Error"]
                     ELSE [connected EXCEPT
                             !.collections = Prefix(list_collection_names(w), MaxCollectionsShown)]
                ELSE [initial EXCEPT !.database = "Available but not initialized"]
    IN  Outcome(Response(200, body), w,
                IF db THEN <<[fn |-> "list_collection_names"]>> ELSE <<>>)

\* the models of schemas.py get_schema looks up, under their lower-cased names,
\* each with its required fields
SchemaRegistry ==
    [tenant |-> {"first_name", "last_name"},
     owner |-> {"first_name", "last_name"},
     property |-> {"title", "address"},
     lease |-> {"tenant_id", "property_id", "start_date", "monthly_rent"},
     sale |-> {"property_id", "buyer_name", "price"},
     expense |-> {"amount", "expense_date"},
     document |-> {"title"}]

\* get_schema(): `importOk` is whether importing the schemas module succeeds
get_schema(w, importOk) ==
    IF ~importOk
    THEN Outcome(HTTPException(500, "Unable to import schemas"), w, <<>>)
    ELSE Outcome(Response(200, SchemaRegistry), w, <<>>)

-----------------------------------------------------------------------------
(* Generic list and create *)

VALID_COLLECTIONS == {"tenant", "owner", "property", "lease", "sale", "expense", "document"}

DefaultLimit == 25

\* variant: the identifier is passed through as the store holds it
normalize_Raw(doc) == doc

normalize(doc) == [k \in DOMAIN doc |-> IF k = "_id" THEN IdStr(doc[k]) ELSE doc[k]]

\* variant: the collection name is not checked against the allow-list
list_items_Unchecked(db, w, collection, limit) ==
    IF ~db THEN Outcome(HTTPException(500, "Database not configured"), w, <<>>)
    ELSE LET items == get_documents(w, collection, limit)
         IN  Outcome(Response(200, [items |-> [i \in 1..Len(items) |-> normalize(items[i])]]),
                     w,
                     <<[fn |-> "get_documents", collection |-> collection]>>)

list_items(db, w, collection, limit) ==
    IF ~db THEN Outcome(HTTPException(500, "Database not configured"), w, <<>>)
    ELSE IF collection \notin VALID_COLLECTIONS
    THEN Outcome(HTTPException(404, "Collection not found"), w, <<>>)
    ELSE LET items == get_documents(w, collection, limit)
         IN  Outcome(Response(200, [items |-> [i \in 1..Len(items) |-> normalize(items[i])]]),
                     w,
                     <<[fn |-> "get_documents", collection |-> collection]>>)

\* variant: the collection name is not checked against the allow-list
create_item_Unchecked(db, w, collection, payload) ==
    IF ~db THEN Outcome(HTTPException(500, "Database not configured"), w, <<>>)
    ELSE LET r == create_document(w, collection, payload)
         IN  Outcome(Response(200, [id |-> r.id, message |-> "Created"]),
                     r.world,
                     <<[fn |-> "create_document", collection |-> collection]>>)

\* variant: the payload is inserted twice
create_item_Twice(db, w, collection, payload) ==
    IF ~db THEN Outcome(HTTPException(500, "Database not configured"), w, <<>>)
    ELSE IF collection \notin VALID_COLLECTIONS
    THEN Outcome(HTTPException(404, "Collection not found"), w, <<>>)
    ELSE LET r1 == create_document(w, collection, payload)
             r == create_document(r1.world, collection, payload)
         IN  Outcome(Response(200, [id |-> r.id, message |-> "Created"]),
                     r.world,
                     <<[fn |-> "create_document", collection |-> collection]>>)

create_item(db, w, collection, payload) ==
    IF ~db THEN Outcome(HTTPException(500, "Database not configured"), w, <<>>)
    ELSE IF collection \notin VALID_COLLECTIONS
    THEN Outcome(HTTPException(404, "Collection not found"), w, <<>>)
    ELSE LET r == create_document(w, collection, payload)
         IN  Outcome(Response(200, [id |-> r.id, message |-> "Created"]),
                     r.world,
                     <<[fn |-> "create_document", collection |-> collection]>>)

-----------------------------------------------------------------------------
(* File upload and lightweight extraction *)

DotCsv == <<46, 99, 115, 118>>
DotTsv == <<46, 116, 115, 118>>
DotXlsx == <<46, 120, 108, 115, 120>>
DotXls == <<46, 120, 108, 115>>
DotPdf == <<46, 112, 100, 102>>

\* "uploaded"
DefaultFilename == <<117, 112, 108, 111, 97, 100, 101, 100>>

\* "application/octet-stream"
DefaultContentType ==
    <<97, 112, 112, 108, 105, 99, 97, 116, 105, 111, 110, 47, 111, 99, 116, 101, 116, 45,
      115, 116, 114, 101, 97, 109>>

\* "Excel file uploaded (preview disabled)."
ExcelNote ==
    <<69, 120, 99, 101, 108, 32, 102, 105, 108, 101, 32, 117, 112, 108, 111, 97, 100, 101,
      100, 32, 40, 112, 114, 101, 118, 105, 101, 119, 32, 100, 105, 115, 97, 98, 108, 101,
      100, 41, 46>>

\* "PDF uploaded (text extraction not available in lightweight mode)."
PdfNote ==
    <<80, 68, 70, 32, 117, 112, 108, 111, 97, 100, 101, 100, 32, 40, 116, 101, 120, 116, 32,
      101, 120, 116, 114, 97, 99, 116, 105, 111, 110, 32, 110, 111, 116, 32, 97, 118, 97,
      105, 108, 97, 98, 108, 101, 32, 105, 110, 32, 108, 105, 103, 104, 116, 119, 101, 105,
      103, 104, 116, 32, 109, 111, 100, 101, 41, 46>>

PreviewLen == 1000

\* lines 119-134: extracted_text, an Optional[str]
ExtractText(filename, raw) ==
    LET afterCsv == IF EndsWithAny(Lower(filename), {DotCsv, DotTsv})
                    THEN Some(DecodeIgnore(raw))
                    ELSE None
        afterExcel == IF afterCsv = None /\ EndsWithAny(Lower(filename), {DotXlsx, DotXls})
                      THEN Some(ExcelNote)
                      ELSE afterCsv
    IN  IF afterExcel = None /\ EndsWith(Lower(filename), DotPdf)
        THEN Some(PdfNote)
        ELSE afterExcel

\* [t.strip() for t in (tags.split(",") if tags else []) if t.strip()]
NonEmpty(s) == s # <<>>

\* variant: the pieces are kept as they were split, untrimmed
ParseTags_Untrimmed(tags) ==
    LET pieces == IF Truthy(tags) THEN Split(Val(tags)) ELSE <<>>
    IN  SelectSeq(pieces, LAMBDA t : NonEmpty(Strip(t)))

ParseTags(tags) ==
    LET pieces == IF Truthy(tags) THEN Split(Val(tags)) ELSE <<>>
        kept == SelectSeq(pieces, LAMBDA t : NonEmpty(Strip(t)))
    IN  [i \in 1..Len(kept) |-> Strip(kept[i])]

\* extracted_text[:1000] if extracted_text else None
\* variant: the preview is the whole text
Preview_WholeText(extracted_text) ==
    IF Truthy(extracted_text) THEN extracted_text ELSE None

Preview(extracted_text) ==
    IF Truthy(extracted_text) THEN Some(Prefix(Val(extracted_text), PreviewLen)) ELSE None

\* `file` is the UploadFile: filename and content_type (Optional[str]) and the
\* bytes file.read() returns; the Form fields are Optional[str]
upload_document(db, w, file, title, tags, related_type, related_id) ==
    IF ~db THEN Outcome(HTTPException(500, "Database not configured"), w, <<>>)
    ELSE LET filename == OrElse(file.filename, DefaultFilename)
             content_type == OrElse(file.content_type, DefaultContentType)
             extracted_text == ExtractText(filename, file.raw)
             doc == [title |-> OrElse(title, filename),
                     filename |-> filename,
                     content_type |-> content_type,
                     tags |-> ParseTags(tags),
                     related_type |-> related_type,
                     related_id |-> related_id,
                     extracted_text |-> extracted_text]
             r == create_document(w, "document", doc)
         IN  Outcome(Response(200, [id |-> r.id,
                                    message |-> "Uploaded",
                                    preview |-> Preview(extracted_text)]),
                     r.world,
                     <<[fn |-> "create_document", collection |-> "document"]>>)

-----------------------------------------------------------------------------
(* Inputs *)

\* names the requests put in the path: two of the allow-list and two others
ClientNames == {"tenant", "document", "upload", "Tenant"}

\* the collections the store may be asked for
StoreNames == VALID_COLLECTIONS \cup ClientNames

Limits == (1..MaxRecords) \cup {DefaultLimit}

EmptyDict == [k \in {} |-> 0]

\* JSON objects; none is checked against schemas.py
Payloads == {EmptyDict, [title |-> <<66>>, surprise |-> 7]}

SeqsUpTo(S, n) == UNION {[1..k -> S] : k \in 0..n}

Rep(b, n) == [i \in 1..n |-> b]

File(filename, content_type, raw) ==
    [filename |-> filename, content_type |-> content_type, raw |-> raw]

Form(file, title, tags, related_type, related_id) ==
    [file |-> file, title |-> title, tags |-> tags,
     related_type |-> related_type, related_id |-> related_id]

\* "general", the default of related_type
General == <<103, 101, 110, 101, 114, 97, 108>>

\* "text/csv"
TextCsv == <<116, 101, 120, 116, 47, 99, 115, 118>>

\* two uploads: "a.csv" with an undecodable byte and tags "a,b", and a file
\* with no name, no content type and no form field but the default
SmallForms ==
    {Form(File(Some(<<97>> \o DotCsv), Some(TextCsv), <<97, 255>>),
          Some(<<84>>), Some(<<97, 44, 98>>), Some(General), Some(<<48, 49>>)),
     Form(File(None, None, <<>>), None, None, Some(General), None)}

\* filenames: none, "", a.csv, A.CSV, b.tsv, s.xlsx, s.XLS, n.pdf, N.Pdf,
\* p.png, csv, a.csv.pdf
Filenames ==
    {None, Some(<<>>),
     Some(<<97, 46, 99, 115, 118>>), Some(<<65, 46, 67, 83, 86>>),
     Some(<<98, 46, 116, 115, 118>>), Some(<<115, 46, 120, 108, 115, 120>>),
     Some(<<115, 46, 88, 76, 83>>), Some(<<110, 46, 112, 100, 102>>),
     Some(<<78, 46, 80, 100, 102>>), Some(<<112, 46, 112, 110, 103>>),
     Some(<<99, 115, 118>>), Some(<<97, 46, 99, 115, 118, 46, 112, 100, 102>>)}

\* bytes: "a", the two bytes of U+00E9, and a byte no UTF-8 text contains
ByteVals == {97, 195, 169, 255}

\* texts around the preview's length: PreviewLen - 1, PreviewLen and
\* PreviewLen + 1 characters, one of them after an undecodable first byte and
\* one with a two-byte character (PreviewLen + 1 bytes, PreviewLen characters)
LongRaws ==
    {Rep(97, PreviewLen - 1), Rep(97, PreviewLen), Rep(97, PreviewLen + 1),
     <<255>> \o Rep(97, PreviewLen + 1), <<195, 169>> \o Rep(97, PreviewLen - 1)}

Raws == SeqsUpTo(ByteVals, MaxRaw) \cup LongRaws

\* tag characters: "a", "," and " "
TagChars == {97, 44, 32}

\* " a, b ,,c "
ExampleTags == <<32, 97, 44, 32, 98, 32, 44, 44, 99, 32>>

TagInputs == {None, Some(ExampleTags)} \cup {Some(t) : t \in SeqsUpTo(TagChars, MaxTags)}

Titles == {None, Some(<<84>>)}

\* every filename with every content and title, and every tags input
RichForms ==
    {Form(File(f, None, raw), title, tags, Some(General), None) :
        f \in Filenames, raw \in Raws, title \in Titles, tags \in {None, Some(ExampleTags)}}
    \cup
    {Form(File(f, None, raw), title, tags, Some(General), None) :
        f \in {None, Some(<<97>> \o DotCsv)}, raw \in {<<>>, <<97>>},
        title \in Titles, tags \in TagInputs}

\* the store's collections that this program did not create: "ext1", "ext2", ...
ForeignNames(n) == [i \in 1..n |-> "ext" \o ToString(i)]

ForeignCounts == {0, MaxForeign}

-----------------------------------------------------------------------------
(* The handlers, called one request at a time *)

InitStore ==
    /\ dbReady \in BOOLEAN
    /\ store = [c \in StoreNames |-> <<>>]
    /\ nextId = 0
    /\ lastReq = [op |-> "none"]
    /\ lastResp = Response(0, [detail |-> "none"])
    /\ lastCalls = <<>>
    /\ created = {}

Init ==
    /\ InitStore
    /\ \E n \in ForeignCounts : existing = ForeignNames(n)
    /\ inflight = None

\* the request is answered and the store is left as the handler left it
Respond(req, o) ==
    /\ o.world.nextId <= MaxRecords
    /\ lastReq' = req
    /\ lastResp' = o.resp
    /\ lastCalls' = o.calls
    /\ store' = o.world.store
    /\ existing' = o.world.existing
    /\ nextId' = o.world.nextId
    /\ created' = IF o.world.nextId # nextId
                  THEN created \cup {[collection |-> o.calls[1].collection, id |-> o.resp.body.id]}
                  ELSE created
    /\ UNCHANGED dbReady

ReadRoot ==
    /\ Respond([op |-> "read_root"], read_root)
    /\ UNCHANGED inflight

TestDatabase ==
    \E listRaises \in BOOLEAN, urlSet \in BOOLEAN, nameSet \in BOOLEAN :
        /\ Respond([op |-> "test_database", listRaises |-> listRaises],
                   test_database(dbReady, World, listRaises, urlSet, nameSet))
        /\ UNCHANGED inflight

GetSchema ==
    \E importOk \in BOOLEAN :
        /\ Respond([op |-> "get_schema"], get_schema(World, importOk))
        /\ UNCHANGED inflight

ListItems ==
    \E collection \in ClientNames, limit \in Limits :
        /\ Respond([op |-> "list_items", collection |-> collection, limit |-> limit],
                   list_items(dbReady, World, collection, limit))
        /\ UNCHANGED inflight

CreateItem ==
    \E collection \in ClientNames, payload \in Payloads :
        /\ Respond([op |-> "create_item", collection |-> collection, payload |-> payload],
                   create_item(dbReady, World, collection, payload))
        /\ UNCHANGED inflight

UploadDocument ==
    \E f \in SmallForms :
        /\ Respond([op |-> "upload_document", form |-> f],
                   upload_document(dbReady, World, f.file, f.title, f.tags,
                                   f.related_type, f.related_id))
        /\ UNCHANGED inflight

Next ==
    \/ ReadRoot
    \/ TestDatabase
    \/ GetSchema
    \/ ListItems
    \/ CreateItem
    \/ UploadDocument

Spec == Init /\ [][Next]_vars

-----------------------------------------------------------------------------
(* One upload, received and then handled by upload_document *)

InitUpload ==
    /\ InitStore
    /\ existing = <<>>
    /\ \E f \in RichForms : inflight = Some(f)

HandleUpload ==
    /\ inflight # None
    /\ LET f == Val(inflight)
       IN  Respond([op |-> "upload_document", form |-> f],
                   upload_document(dbReady, World, f.file, f.title, f.tags,
                                   f.related_type, f.related_id))
    /\ inflight' = None

NextUpload == HandleUpload

SpecUpload == InitUpload /\ [][NextUpload]_vars

-----------------------------------------------------------------------------
(* The HTTP surface: the routes in the order the decorators register them *)

Route(method, pattern, endpoint) == [method |-> method, pattern |-> pattern, endpoint |-> endpoint]

CollectionParam == "{collection}"

Routes ==
    <<Route("GET", <<>>, "read_root"),
      Route("GET", <<"test">>, "test_database"),
      Route("GET", <<"schema">>, "get_schema"),
      Route("GET", <<"api", CollectionParam>>, "list_items"),
      Route("POST", <<"api", CollectionParam>>, "create_item"),
      Route("POST", <<"api", "upload">>, "upload_document")>>

\* a path parameter matches any one segment
PathMatches(pattern, path) ==
    /\ Len(pattern) = Len(path)
    /\ \A i \in 1..Len(pattern) : pattern[i] = CollectionParam \/ pattern[i] = path[i]

\* the routes are tried in order and the first full match (path and method)
\* takes the request
FullMatches(req) ==
    {i \in 1..Len(Routes) :
        PathMatches(Routes[i].pattern, req.path) /\ Routes[i].method = req.method}

PathOnlyMatches(req) == {i \in 1..Len(Routes) : PathMatches(Routes[i].pattern, req.path)}

First(S) == CHOOSE i \in S : \A j \in S : i <= j

\* the endpoint that takes the request: "not_found" when no path matches,
\* "method_not_allowed" when a path matches and no method does
Endpoint(req) ==
    IF FullMatches(req) # {} THEN Routes[First(FullMatches(req))].endpoint
    ELSE IF PathOnlyMatches(req) # {} THEN "method_not_allowed"
    ELSE "not_found"

NoBody == [kind |-> "none"]
JsonBody(value) == [kind |-> "json", value |-> value]
MultipartBody(form) == [kind |-> "multipart", form |-> form]

\* the request does not fit the endpoint's parameters: answered before the
\* endpoint runs
Unprocessable(w) == Outcome(HTTPException(422, "Unprocessable Entity"), w, <<>>)

\* `env` is what the process finds around it while it handles the request
Handle(req, db, w, env) ==
    LET endpoint == Endpoint(req)
    IN  IF endpoint = "read_root" THEN read_root
        ELSE IF endpoint = "test_database"
        THEN test_database(db, w, env.listRaises, env.urlSet, env.nameSet)
        ELSE IF endpoint = "get_schema" THEN get_schema(w, env.importOk)
        ELSE IF endpoint = "list_items"
        THEN list_items(db, w, req.path[2], IF req.limit = None THEN DefaultLimit ELSE Val(req.limit))
        ELSE IF endpoint = "create_item"
        THEN IF req.body.kind = "json"
             THEN create_item(db, w, req.path[2], req.body.value)
             ELSE Unprocessable(w)
        ELSE IF endpoint = "upload_document"
        THEN IF req.body.kind = "multipart"
             THEN LET f == req.body.form
                  IN  upload_document(db, w, f.file, f.title, f.tags, f.related_type, f.related_id)
             ELSE Unprocessable(w)
        ELSE IF endpoint = "method_not_allowed"
        THEN Outcome(HTTPException(405, "Method Not Allowed"), w, <<>>)
        ELSE Outcome(HTTPException(404, "Not Found"), w, <<>>)

Paths == {<<>>, <<"test">>, <<"schema">>, <<"nope">>} \cup {<<"api", c>> : c \in ClientNames}

Bodies == {NoBody} \cup {JsonBody(p) : p \in Payloads} \cup {MultipartBody(f) : f \in SmallForms}

Envs == [listRaises : BOOLEAN, urlSet : BOOLEAN, nameSet : BOOLEAN, importOk : BOOLEAN]

QuietEnv == [listRaises |-> FALSE, urlSet |-> TRUE, nameSet |-> TRUE, importOk |-> TRUE]

\* the surroundings and the query only vary where an endpoint reads them
EnvsFor(path) ==
    IF path = <<"test">> THEN {e \in Envs : e.importOk}
    ELSE IF path = <<"schema">> THEN {e \in Envs : ~e.listRaises /\ e.urlSet /\ e.nameSet}
    ELSE {QuietEnv}

LimitsFor(path) ==
    IF Len(path) = 2 THEN {None} \cup {Some(l) : l \in Limits} ELSE {None}

Request(method, path, limit, body) ==
    [method |-> method, path |-> path, limit |-> limit, body |-> body]

HttpGet ==
    \E path \in Paths :
        \E limit \in LimitsFor(path), env \in EnvsFor(path) :
            LET req == Request("GET", path, limit, NoBody)
            IN  /\ Respond([op |-> Endpoint(req), request |-> req, listRaises |-> env.listRaises],
                           Handle(req, dbReady, World, env))
                /\ UNCHANGED inflight

HttpPost ==
    \E path \in Paths, body \in Bodies :
        LET req == Request("POST", path, None, body)
        IN  /\ Respond([op |-> Endpoint(req), request |-> req, listRaises |-> FALSE],
                       Handle(req, dbReady, World, QuietEnv))
            /\ UNCHANGED inflight

NextHttp ==
    \/ HttpGet
    \/ HttpPost

SpecHttp == Init /\ [][NextHttp]_vars

-----------------------------------------------------------------------------
(* Properties of the HTTP surface (SpecHttp) *)

Served == lastReq.op \notin {"none"}

Req == lastReq.request

IsApiPath(path) == Len(path) = 2 /\ path[1] = "api"

\* GET /api/{collection}
IsListRequest == Req.method = "GET" /\ IsApiPath(Req.path)

\* POST /api/{collection} with a JSON object
IsCreateRequest == Req.method = "POST" /\ IsApiPath(Req.path) /\ Req.body.kind = "json"

\* POST /api/upload with a multipart form
IsUploadRequest ==
    Req.method = "POST" /\ Req.path = <<"api", "upload">> /\ Req.body.kind = "multipart"

NamesUnknownCollection ==
    Req.path[2] \notin {"tenant", "owner", "property", "lease", "sale", "expense", "document"}

\* C1, as stated: List and Create on a collection name outside the allow-list
\* answer 404 in every store state, configured or absent.
C1_UnknownCollection404Always ==
    (Served /\ (IsListRequest \/ IsCreateRequest) /\ NamesUnknownCollection)
        => lastResp.status = 404

\* C1, amended: List and Create on a collection name outside the allow-list
\* answer 404 "Collection not found" when the store is configured and 500
\* "Database not configured" when it is absent, and touch the store in
\* neither case.
C1_UnknownCollection ==
    (Served /\ (IsListRequest \/ IsCreateRequest) /\ NamesUnknownCollection)
        => /\ lastResp = IF dbReady
                         THEN [status |-> 404, body |-> [detail |-> "Collection not found"]]
                         ELSE [status |-> 500, body |-> [detail |-> "Database not configured"]]
           /\ lastCalls = <<>>

C1_Witness ==
    /\ Served
    /\ dbReady
    /\ IsListRequest
    /\ Req.path[2] = "Tenant"
    /\ Req.limit = Some(1)
    /\ lastResp.status = 404
    /\ store["tenant"] # <<>>

\* C3: with the store configured, POST /api/upload with a multipart form is
\* handled by upload_document: one record is inserted into "document" and the
\* answer is 200 with exactly the fields id, message and preview.
C3_UploadReachesUploadHandler ==
    (Served /\ dbReady /\ IsUploadRequest)
        => /\ lastReq.op = "upload_document"
           /\ lastResp.status = 200
           /\ DOMAIN lastResp.body = {"id", "message", "preview"}
           /\ lastCalls = <<[fn |-> "create_document", collection |-> "document"]>>

\* C5: with the store absent, every List, Create and Upload request answers
\* 500 and makes no store adapter call.
C5_NoStoreAnswers500 ==
    (Served /\ ~dbReady /\ (IsListRequest \/ IsCreateRequest \/ IsUploadRequest))
        => /\ lastResp.status = 500
           /\ lastCalls = <<>>

-----------------------------------------------------------------------------
(* Properties of the handlers (Spec) *)

IsPrefixOf(s, t) == Len(s) <= Len(t) /\ SubSeq(t, 1, Len(s)) = s

\* C2: a successful List of a collection with a limit of at least the number
\* of its records holds, for every identifier a successful Create or Upload
\* into that collection returned, an item whose "_id" is that identifier.
C2_CreatedIsListed ==
    (lastReq.op = "list_items" /\ lastResp.status = 200
        /\ lastReq.limit >= Len(store[lastReq.collection]))
        => \A cr \in created :
               cr.collection = lastReq.collection
                   => \E i \in 1..Len(lastResp.body.items) :
                          lastResp.body.items[i]["_id"] = cr.id

C2_Witness ==
    /\ lastReq.op = "list_items"
    /\ lastResp.status = 200
    /\ lastReq.collection = "tenant"
    /\ lastReq.limit = Len(store["tenant"])
    /\ Cardinality({cr \in created : cr.collection = "tenant"}) = 2

OtherNames == StoreNames \ {"tenant", "owner", "property", "lease", "sale", "expense", "document"}

\* C4: no record lies in, and no collection exists under, a requested name
\* outside the allow-list.
C4_OnlyAllowListedCollections ==
    /\ \A c \in OtherNames : store[c] = <<>>
    /\ \A i \in 1..Len(existing) : existing[i] \notin OtherNames

C4_Witness ==
    /\ dbReady
    /\ lastReq.op = "create_item"
    /\ lastReq.collection = "upload"
    /\ lastResp.status = 404
    /\ Len(store["document"]) = 1
    /\ Len(store["tenant"]) = 1

\* C9: GET /test answers 200 with the status payload in every store state;
\* a failing listing is recorded in the database field; collections holds
\* the first 20 names of the store at most.
C9_TestNeverFails ==
    lastReq.op = "test_database"
        => /\ lastResp.status = 200
           /\ DOMAIN lastResp.body = {"backend", "database", "database_url", "database_name",
                                      "connection_status", "collections"}
           /\ Len(lastResp.body.collections) <= 20
           /\ IsPrefixOf(lastResp.body.collections, existing)
           /\ (dbReady /\ ~lastReq.listRaises)
                  => /\ lastResp.body.database = "Connected & Working"
                     /\ (Len(existing) >= 20 => Len(lastResp.body.collections) = 20)
                     /\ (Len(existing) < 20 => lastResp.body.collections = existing)
           /\ (dbReady /\ lastReq.listRaises)
                  => lastResp.body.database = "Connected but Error"
           /\ ~dbReady => lastResp.body.database = "Available but not initialized"

C9_Witness ==
    /\ lastReq.op = "test_database"
    /\ dbReady
    /\ ~lastReq.listRaises
    /\ Len(existing) > 20
    /\ Len(lastResp.body.collections) = 20
    /\ lastResp.status = 200

\* C9, second witness state: the listing raised and the answer is still 200
C9_RaisedAnswered ==
    /\ lastReq.op = "test_database"
    /\ dbReady
    /\ lastReq.listRaises
    /\ lastResp.status = 200

\* C10: every step keeps every stored record, with its identifier, where it
\* was; List changes no record; a successful Create adds to the named
\* collection one record, the payload under an identifier no record had, and
\* changes no other collection.
C10_CreateAddsOneRecord ==
    [][/\ \A c \in StoreNames : IsPrefixOf(store[c], store'[c])
       /\ lastReq'.op = "list_items" => store' = store /\ existing' = existing
       /\ (lastReq'.op = "create_item" /\ lastResp'.status = 200)
              => LET c == lastReq'.collection
                     new == store'[c][Len(store'[c])]
                 IN  /\ Len(store'[c]) = Len(store[c]) + 1
                     /\ \A d \in StoreNames \ {c} : store'[d] = store[d]
                     /\ DOMAIN new = DOMAIN lastReq'.payload \cup {"_id"}
                     /\ \A k \in DOMAIN lastReq'.payload : new[k] = lastReq'.payload[k]
                     /\ IdStr(new["_id"]) = lastResp'.body.id
                     /\ \A d \in StoreNames : \A i \in 1..Len(store[d]) :
                            store[d][i]["_id"] # new["_id"]
      ]_vars

C10_Witness ==
    /\ lastReq.op = "create_item"
    /\ lastResp.status = 200
    /\ lastReq.collection = "tenant"
    /\ Len(store["tenant"]) = 1
    /\ Len(store["document"]) = 1

-----------------------------------------------------------------------------
(* Properties of one upload (SpecUpload) *)

\* the upload was handled with the store configured
Uploaded == lastReq.op = "upload_document" /\ dbReady

UpFile == lastReq.form.file

\* the record the upload stored
StoredDoc == store["document"][1]

\* the filename as the client gave it, lower-cased; empty when there is none
GivenNameLower == IF UpFile.filename = None THEN <<>> ELSE Lower(Val(UpFile.filename))

HasExtension(ext) == EndsWith(GivenNameLower, ext)

\* the positions of raw that lie in a complete, valid UTF-8 sequence
Decodable(raw, i) ==
    \E d \in 0..3 :
        /\ i - d >= 1
        /\ ~IsCont(raw[i - d])
        /\ Complete(raw, i - d)
        /\ SeqLen(raw[i - d]) > d

\* raw with every undecodable byte dropped
DropUndecodable(raw) ==
    LET marked == [i \in 1..Len(raw) |-> IF Decodable(raw, i) THEN Some(raw[i]) ELSE None]
    IN  Concat1(marked)

Chars(s) == {s[i] : i \in 1..Len(s)}

\* the extracted text the extension decides, given the decoding of the bytes
TextByExtension(decoded) ==
    IF HasExtension(DotCsv) \/ HasExtension(DotTsv) THEN Some(decoded)
    ELSE IF HasExtension(DotXlsx) \/ HasExtension(DotXls) THEN Some(ExcelNote)
    ELSE IF HasExtension(DotPdf) THEN Some(PdfNote)
    ELSE None

RecordCreated ==
    /\ lastResp.status = 200
    /\ Len(store["document"]) = 1
    /\ lastCalls = <<[fn |-> "create_document", collection |-> "document"]>>

\* C6, as stated: the extracted text is decided by the lower-cased extension;
\* for .csv and .tsv it is the decoding of the bytes with each undecodable
\* byte replaced; the record is created in every case.
C6_UndecodableBytesReplaced ==
    Uploaded
        => /\ RecordCreated
           /\ StoredDoc.extracted_text = TextByExtension(DecodeReplace(UpFile.raw))

\* C6, amended: the extracted text is decided by the lower-cased extension;
\* for .csv and .tsv it is the decoding of the bytes with each undecodable
\* byte dropped, so that nothing stands in its place; for .xlsx and .xls and
\* for .pdf it is the fixed note; otherwise it is null; the record is created
\* in every case.
C6_UndecodableBytesDropped ==
    Uploaded
        => /\ RecordCreated
           /\ StoredDoc.extracted_text = TextByExtension(DecodeReplace(DropUndecodable(UpFile.raw)))
           /\ (HasExtension(DotCsv) \/ HasExtension(DotTsv))
                  => /\ ReplacementChar \notin Chars(Val(StoredDoc.extracted_text))
                     /\ (\A i \in 1..Len(UpFile.raw) : UpFile.raw[i] < 128)
                            => Val(StoredDoc.extracted_text) = UpFile.raw

\* "A.CSV" holding "a", an undecodable byte and "a" is stored as "aa"
C6_Witness ==
    /\ Uploaded
    /\ UpFile.filename = Some(<<65, 46, 67, 83, 86>>)
    /\ UpFile.raw = <<97, 255, 97>>
    /\ StoredDoc.extracted_text = Some(<<97, 97>>)

StoredText == StoredDoc.extracted_text

ResponsePreview == lastResp.body.preview

\* C7, as stated: the preview is null exactly when the extracted text is
\* null, and is the first 1000 characters of any text that is present.
C7_PreviewNullOnlyForNullText ==
    Uploaded
        => /\ ResponsePreview = None <=> StoredText = None
           /\ StoredText # None
                  => ResponsePreview = Some(SubSeq(Val(StoredText), 1, Min(1000, Len(Val(StoredText)))))

\* C7, amended: the preview is null exactly when the extracted text is null
\* or empty; for every non-empty text it is the first 1000 characters, the
\* whole text when that has at most 1000; the stored text is not truncated.
C7_PreviewOfNonEmptyText ==
    Uploaded
        => /\ ResponsePreview = None <=> (StoredText = None \/ StoredText = Some(<<>>))
           /\ (StoredText # None /\ StoredText # Some(<<>>))
                  => /\ ResponsePreview # None
                     /\ Len(Val(ResponsePreview)) = Min(1000, Len(Val(StoredText)))
                     /\ \A i \in 1..Len(Val(ResponsePreview)) :
                            Val(ResponsePreview)[i] = Val(StoredText)[i]
           /\ (HasExtension(DotCsv) /\ \A i \in 1..Len(UpFile.raw) : UpFile.raw[i] < 128)
                  => StoredText = Some(UpFile.raw)

\* a text of 1001 characters is stored whole and previewed by its first 1000
C7_Witness ==
    /\ Uploaded
    /\ StoredText # None
    /\ Len(Val(StoredText)) = 1001
    /\ Len(Val(ResponsePreview)) = 1000

\* the k-th comma of s, for k in 1..number of commas; position 0 before the
\* first piece and Len(s) + 1 after the last
CommaAt(s, k) ==
    LET commas == {p \in 1..Len(s) : s[p] = 44}
    IN  IF k = 0 THEN 0
        ELSE IF k > Cardinality(commas) THEN Len(s) + 1
        ELSE CHOOSE p \in commas : Cardinality({q \in commas : q < p}) = k - 1

\* the k-th comma-separated piece of s without its surrounding whitespace:
\* from its first to its last character that is not whitespace
TrimmedPiece(s, k) ==
    LET lo == CommaAt(s, k - 1) + 1
        hi == CommaAt(s, k) - 1
        solid == {p \in lo..hi : ~IsSpace(s[p])}
    IN  IF solid = {} THEN <<>>
        ELSE SubSeq(s, CHOOSE p \in solid : \A q \in solid : p <= q,
                       CHOOSE p \in solid : \A q \in solid : q <= p)

\* the tags the claim describes for a tags input
ClaimedTags(tags) ==
    IF tags = None \/ tags = Some(<<>>) THEN <<>>
    ELSE LET s == Val(tags)
             n == Cardinality({p \in 1..Len(s) : s[p] = 44}) + 1
             pieces == [k \in 1..n |-> TrimmedPiece(s, k)]
         IN  SelectSeq(pieces, NonEmpty)

\* C8: the stored tags are the comma-separated pieces of the input, trimmed,
\* the empty ones removed, in input order, duplicates kept; no tags input and
\* an empty one give the empty list.
C8_TagsSplitTrimmedNonEmpty ==
    Uploaded
        => /\ StoredDoc.tags = ClaimedTags(lastReq.form.tags)
           /\ \A i \in 1..Len(StoredDoc.tags) :
                  LET t == StoredDoc.tags[i]
                  IN  /\ t # <<>>
                      /\ 44 \notin Chars(t)
                      /\ ~IsSpace(t[1])
                      /\ ~IsSpace(t[Len(t)])
           /\ lastReq.form.tags = Some(<<32, 97, 44, 32, 98, 32, 44, 44, 99, 32>>)
                  => StoredDoc.tags = <<<<97>>, <<98>>, <<99>>>>

\* " a, b ,,c " is stored as ["a", "b", "c"]
C8_Witness ==
    /\ Uploaded
    /\ lastReq.form.tags = Some(<<32, 97, 44, 32, 98, 32, 44, 44, 99, 32>>)
    /\ StoredDoc.tags = <<<<97>>, <<98>>, <<99>>>>

\* "a,a" keeps its duplicate
C8_DuplicatesKept ==
    /\ Uploaded
    /\ lastReq.form.tags = Some(<<97, 44, 97>>)
    /\ StoredDoc.tags = <<<<97>>, <<97>>>>

====
